---- MODULE Spec2Model ----
\* The Bluesky publish pipeline of main_timelapse_script.py:
\* SunriseTimelapse.post_to_bluesky driving FixedBlueSkyClient
\* (create_session, get_user_pds_did, get_service_auth, upload_video,
\* wait_for_video_processing, get_completed_job_blob, create_post_with_video).
\* Every network call is one action; its response is chosen by the environment.
EXTENDS Integers, Sequences, FiniteSets, TLC

\* ---------------------------------------------------------------- values

\* Python's None, and the marker of a key that a JSON object does not hold.
None == "None"
Missing == "<missing>"
\* An empty JSON object / empty string: present, but falsy in Python.
Empty == ""

\* Python truthiness of a value that is None, empty or a non-empty value.
Truthy(x) == x \notin {None, Missing, Empty}

\* dict.get(key): a missing key reads as None.
Get(x) == IF x = Missing THEN None ELSE x

\* dict.get(key, default)
GetOr(x, default) == IF x = Missing THEN default ELSE x

\* ------------------------------------------------------- program constants

\* for attempt in range(max_attempts)
max_attempts == 30

\* if size_mb > 50
MaxSizeMB == 50

\* size_mb = st_size / (1024 * 1024)
MiB == 1048576

\* "exp": int(time.time()) + 1800
TokenLifetime == 1800
\* requests' timeout=30, the upload's timeout=600, time.sleep(10): seconds
RequestTimeout == 30
UploadTimeout == 600
SleepSeconds == 10

\* ------------------------------------------------------------------ bounds

\* Successive publish attempts (process runs) against the content-keyed server.
MaxRuns == 2

\* ------------------------------------------------------------------ inputs

PlaceholderHandle == "handle.bsky.social"

\* CONFIG['bluesky']: configured, placeholder handle, empty password.
Configs ==
  { [handle |-> "sunrise.bsky.social", password |-> "app-password"],
    [handle |-> PlaceholderHandle, password |-> "app-password"],
    [handle |-> "sunrise.bsky.social", password |-> Empty] }

\* The final video file: its bytes (named by content) and its size in bytes.
Videos ==
  { [content |-> "bytesA", size |-> 20 * MiB],
    [content |-> "bytesB", size |-> MaxSizeMB * MiB],
    [content |-> "bytesC", size |-> MaxSizeMB * MiB + 1] }

NoVideo == [content |-> None, size |-> 0]

\* size_mb = video_path.stat().st_size / (1024 * 1024); if size_mb > 50.
\* The division by 2^20 is exact in binary floating point.
TooLarge(size) == size > MaxSizeMB * MiB

JOB_STATE_CREATED == "JOB_STATE_CREATED"
JOB_STATE_RUNNING == "JOB_STATE_RUNNING"
JOB_STATE_ENCODING == "JOB_STATE_ENCODING"
JOB_STATE_COMPLETED == "JOB_STATE_COMPLETED"
JOB_STATE_FAILED == "JOB_STATE_FAILED"
\* a state string the client does not know
JOB_STATE_OTHER == "JOB_STATE_SCANNING"

NonTerminal == {JOB_STATE_CREATED, JOB_STATE_RUNNING, JOB_STATE_ENCODING}
Terminal == {JOB_STATE_COMPLETED, JOB_STATE_FAILED}

\* ------------------------------------------------- the servers' responses
\* A response: raised (requests raised: connection error or timeout), the HTTP
\* status, json (the body parses as JSON) and the keys of the body.

\* createSession (read by create_session)
SessionOk(jwt, did, handle) ==
  [raised |-> FALSE, status |-> 200, json |-> TRUE,
   accessJwt |-> jwt, did |-> did, handle |-> handle]
SessionResponses ==
  { SessionOk("jwt1", "did:plc:abc123", "sunrise.bsky.social"),
    SessionOk("jwt2", "did:plc:xyz789", "dawn.bsky.social"),
    SessionOk("jwt1", "did:plc:abc123", Missing),
    SessionOk(Missing, "did:plc:abc123", "sunrise.bsky.social"),
    SessionOk(Missing, Missing, Missing),
    [SessionOk(Missing, Missing, Missing) EXCEPT !.json = FALSE],
    [SessionOk(Missing, Missing, Missing) EXCEPT !.status = 401],
    [SessionOk(Missing, Missing, Missing) EXCEPT !.raised = TRUE] }
WellBehavedSessionResponses ==
  { SessionOk("jwt1", "did:plc:abc123", "sunrise.bsky.social"),
    SessionOk("jwt2", "did:plc:xyz789", "dawn.bsky.social"),
    [SessionOk(Missing, Missing, Missing) EXCEPT !.status = 401] }

\* A URL string by its parts; the empty string has no part.
Url(scheme, host) == [scheme |-> scheme, host |-> host]
EmptyUrl == Url("", "")

\* urllib.parse.urlparse(pds_url).netloc: the host after "scheme://"; a string
\* without "//" has no netloc (its text is the path).
Netloc(url) == IF url.scheme = "" THEN "" ELSE url.host

\* f"did:web:{parsed.netloc}"
DidWeb(netloc) == "did:web:" \o netloc

PdsEntry(url) == [id |-> "#atproto_pds", serviceEndpoint |-> url]
OtherEntry(url) == [id |-> "#atproto_labeler", serviceEndpoint |-> url]
\* an element of 'service' that is not an object (a JSON string): service.get
\* raises AttributeError on it
StringEntry == [id |-> "<not an object>", serviceEndpoint |-> EmptyUrl]

\* the directory lookup (read by get_user_pds_did); a document without the
\* 'service' key reads as the empty list.
DocOk(service) ==
  [raised |-> FALSE, status |-> 200, json |-> TRUE, service |-> service]
DirectoryResponses ==
  { DocOk(<<PdsEntry(Url("https", "pds1.example"))>>),
    DocOk(<<OtherEntry(Url("https", "labeler.example")),
            PdsEntry(Url("https", "pds2.example"))>>),
    DocOk(<<PdsEntry(Url("", "pds1.example"))>>),
    DocOk(<<OtherEntry(Url("https", "labeler.example"))>>),
    DocOk(<<>>),
    [DocOk(<<>>) EXCEPT !.json = FALSE],
    [DocOk(<<>>) EXCEPT !.status = 404],
    [DocOk(<<>>) EXCEPT !.raised = TRUE] }
WellBehavedDirectoryResponses ==
  { DocOk(<<PdsEntry(Url("https", "pds1.example"))>>),
    [DocOk(<<>>) EXCEPT !.status = 404] }

\* A scoped token, named by the audience and the operation it was minted for.
NoToken == [aud |-> None, lxm |-> None, exp |-> 0]
Mint(req) == [aud |-> req.aud, lxm |-> req.lxm, exp |-> req.exp]

\* getServiceAuth (read by get_service_auth); hasToken: the body holds "token".
AuthOk(token) ==
  [raised |-> FALSE, status |-> 200, json |-> TRUE,
   hasToken |-> token # NoToken, token |-> token]
AuthResponses(req) ==
  { AuthOk(Mint(req)),
    AuthOk(NoToken),
    [AuthOk(NoToken) EXCEPT !.json = FALSE],
    [AuthOk(NoToken) EXCEPT !.status = 400],
    [AuthOk(NoToken) EXCEPT !.raised = TRUE] }
WellBehavedAuthResponses(req) ==
  { AuthOk(Mint(req)), [AuthOk(NoToken) EXCEPT !.status = 400] }

\* uploadVideo (read by upload_video)
UploadResp(status, jobId, st) ==
  [raised |-> FALSE, status |-> status, json |-> TRUE,
   jobId |-> jobId, state |-> st]
UploadResponses ==
  { UploadResp(200, "job-1", Missing),
    UploadResp(200, "job-2", Missing),
    UploadResp(200, Missing, Missing),
    UploadResp(200, Empty, Missing),
    UploadResp(409, "job-1", JOB_STATE_COMPLETED),
    UploadResp(409, "job-2", JOB_STATE_COMPLETED),
    UploadResp(409, Missing, JOB_STATE_COMPLETED),
    UploadResp(409, "job-1", JOB_STATE_CREATED),
    UploadResp(409, "job-1", JOB_STATE_RUNNING),
    UploadResp(409, "job-1", JOB_STATE_ENCODING),
    UploadResp(409, "job-1", JOB_STATE_FAILED),
    UploadResp(409, "job-1", Missing),
    UploadResp(500, Missing, Missing),
    [UploadResp(200, Missing, Missing) EXCEPT !.json = FALSE],
    [UploadResp(200, Missing, Missing) EXCEPT !.raised = TRUE] }

\* getJobStatus (read by wait_for_video_processing and get_completed_job_blob);
\* jobStatus: the key holds an object, holds null, or is absent.
StatusResp(st, blob, err) ==
  [raised |-> FALSE, status |-> 200, json |-> TRUE, jobStatus |-> "object",
   state |-> st, blob |-> blob, error |-> err]
StatusResponses ==
  { StatusResp(JOB_STATE_CREATED, Missing, Missing),
    StatusResp(JOB_STATE_RUNNING, Missing, Missing),
    StatusResp(JOB_STATE_ENCODING, Missing, Missing),
    StatusResp(JOB_STATE_ENCODING, "bafy123", Missing),
    StatusResp(JOB_STATE_OTHER, Missing, Missing),
    StatusResp(Missing, Missing, Missing),
    StatusResp(JOB_STATE_COMPLETED, "bafy123", Missing),
    StatusResp(JOB_STATE_COMPLETED, "bafy456", Missing),
    StatusResp(JOB_STATE_COMPLETED, Empty, Missing),
    StatusResp(JOB_STATE_COMPLETED, Missing, Missing),
    StatusResp(JOB_STATE_FAILED, Missing, "transcode error"),
    StatusResp(JOB_STATE_FAILED, Missing, Missing),
    [StatusResp(Missing, Missing, Missing) EXCEPT !.jobStatus = "absent"],
    [StatusResp(Missing, Missing, Missing) EXCEPT !.jobStatus = "null"],
    [StatusResp(Missing, Missing, Missing) EXCEPT !.status = 503],
    [StatusResp(Missing, Missing, Missing) EXCEPT !.json = FALSE],
    [StatusResp(Missing, Missing, Missing) EXCEPT !.raised = TRUE] }
NoStatus == [StatusResp(Missing, Missing, Missing) EXCEPT !.status = 0]

\* createRecord (read by create_post_with_video)
PostResp(uri, cid) ==
  [raised |-> FALSE, status |-> 200, json |-> TRUE, uri |-> uri, cid |-> cid]
PostResponses ==
  { PostResp("at://did:plc:abc123/app.bsky.feed.post/xyz789", "bafyrecord"),
    PostResp(Missing, "bafyrecord"),
    PostResp(Missing, Missing),
    [PostResp(Missing, Missing) EXCEPT !.status = 400],
    [PostResp(Missing, Missing) EXCEPT !.json = FALSE],
    [PostResp(Missing, Missing) EXCEPT !.raised = TRUE] }

\* --------------------------------------------- the content-keyed video server
\* A video service that keys jobs by the submitted bytes: one job and one blob
\* per content, and a job state that only moves forward.

Contents == {v.content : v \in Videos}

JobOf(content) ==
  CASE content = "bytesA" -> "job-1"
    [] content = "bytesB" -> "job-2"
    [] OTHER -> "job-3"

BlobOf(content) ==
  CASE content = "bytesA" -> "bafy123"
    [] content = "bytesB" -> "bafy456"
    [] OTHER -> "bafy789"

Forward(st) ==
  CASE st = JOB_STATE_CREATED -> NonTerminal \cup Terminal
    [] st = JOB_STATE_RUNNING ->
         {JOB_STATE_RUNNING, JOB_STATE_ENCODING} \cup Terminal
    [] st = JOB_STATE_ENCODING -> {JOB_STATE_ENCODING} \cup Terminal
    [] OTHER -> {st}

\* The answers to uploadVideo for these bytes, each with the job table after it:
\* 200 with a new job, or 409 with the job that exists and its state by now.
KeyedUpload(content, table) ==
  IF table[content] = "absent"
  THEN { [res |-> UploadResp(200, JobOf(content), Missing),
          jobs |-> [table EXCEPT ![content] = JOB_STATE_CREATED]] }
  ELSE { [res |-> UploadResp(409, JobOf(content), st),
          jobs |-> [table EXCEPT ![content] = st]] : st \in Forward(table[content]) }

\* The answers to getJobStatus for a job id, each with the job table after it.
KeyedStatus(jobId, table) ==
  LET known == {c \in Contents : JobOf(c) = jobId /\ table[c] # "absent"}
  IN IF known = {}
     THEN { [res |-> [StatusResp(Missing, Missing, Missing) EXCEPT !.status = 404],
             jobs |-> table] }
     ELSE UNION { { [res |-> StatusResp(st,
                         IF st = JOB_STATE_COMPLETED THEN BlobOf(c) ELSE Missing,
                         IF st = JOB_STATE_FAILED THEN "transcode error" ELSE Missing),
                     jobs |-> [table EXCEPT ![c] = st]] :
                    st \in Forward(table[c]) } : c \in known }

\* ------------------------------------------------------------------- state

VARIABLES
  cfg,           \* CONFIG['bluesky']: handle and password
  keyed,         \* the video server keys jobs by content (else: any answer)
  script,        \* the status responses a scripted server gives, in order
                 \* (<<>>: the server is not scripted)
  timed,         \* the calls and sleeps take time (else the clock stands still)
  now,           \* time.time(), in seconds
  other,         \* the locals of a second publish attempt while it is suspended
  main,          \* main(): whether it returned, its value, the cleanup step,
                 \* and where a KeyboardInterrupt was raised
  jobs,          \* the keyed server's job table: content -> state or "absent"
  run,           \* publish attempts started against the keyed server
  earlier,       \* per content, what earlier attempts against the keyed server got
  pc,            \* where post_to_bluesky stands
  video,         \* video_path of this attempt
  client,        \* FixedBlueSkyClient: access_token, did, handle
  stage,         \* the caller of get_service_auth: upload, wait or blob
  pds_did,       \* get_service_auth: pds_did
  service_auth,  \* service_auth of upload_video, wait_for_video_processing,
                 \* get_completed_job_blob
  job_id,        \* upload_video: job_id
  attempt,       \* wait_for_video_processing: attempt
  state,         \* wait_for_video_processing: state, as last read
  error,         \* wait_for_video_processing: error, as printed
  video_result,  \* post_to_bluesky: video_result
  args,          \* create_post_with_video: text and alt_text
  record,        \* create_post_with_video: record
  post_result,   \* post_to_bluesky: post_result
  result,        \* what post_to_bluesky returned (read when pc = "done")
  log,           \* the network calls of this attempt, in order
  sleeps,        \* the time.sleep(10) calls of this attempt
  lastStatus     \* the last getJobStatus response

env == <<cfg, keyed, script, timed, main, other>>
server == <<jobs, run, earlier>>
vars == <<cfg, keyed, script, timed, now, main, other, jobs, run, earlier, pc, video, client, stage, pds_did,
          service_auth, job_id, attempt, state, error, video_result, args,
          record, post_result, result, log, sleeps, lastStatus>>

\* FixedBlueSkyClient.__init__
NewClient == [created |-> TRUE, access_token |-> None, did |-> None, handle |-> None]
\* no client object exists
NoClient == [NewClient EXCEPT !.created = FALSE]

Stages == {"upload", "wait", "blob"}
NoResult == [blob |-> None, jobId |-> None, state |-> None]
NoArgs == [text |-> None, alt_text |-> None]
NoRecord == [text |-> None]
NoPost == [returned |-> FALSE, uri |-> None, cid |-> None]
NoSummary == [submitted |-> FALSE, jobId |-> None, blob |-> None]

\* main() is running: it has not returned, not cleaned up, not been interrupted
Running == [returned |-> FALSE, success |-> FALSE, cleanup |-> "none",
            interrupted |-> None]

\* post_to_bluesky has not returned
NotReturned == [ok |-> FALSE, error |-> None]

\* The locals of a publish attempt that has not run a statement.
NotStarted ==
  [pc |-> "idle", video |-> NoVideo, client |-> NoClient, stage |-> None,
   pds_did |-> None, service_auth |-> [s \in Stages |-> NoToken],
   job_id |-> None, attempt |-> 0, state |-> None, error |-> None,
   video_result |-> NoResult, args |-> NoArgs, record |-> NoRecord,
   post_result |-> NoPost, result |-> NotReturned, log |-> <<>>, sleeps |-> 0,
   lastStatus |-> NoStatus]

\* The state of the locals before post_to_bluesky has run a statement.
Fresh(v) ==
  /\ video' = v
  /\ stage' = None
  /\ pds_did' = None
  /\ service_auth' = [s \in Stages |-> NoToken]
  /\ job_id' = None
  /\ attempt' = 0
  /\ state' = None
  /\ error' = None
  /\ video_result' = NoResult
  /\ args' = NoArgs
  /\ record' = NoRecord
  /\ post_result' = NoPost
  /\ sleeps' = 0
  /\ lastStatus' = NoStatus
  /\ log' = <<>>

Init ==
  /\ cfg \in Configs
  /\ keyed \in BOOLEAN
  /\ script = <<>>
  /\ timed = FALSE
  /\ now = 0
  /\ main = Running
  /\ other = NotStarted
  /\ jobs = [c \in Contents |-> "absent"]
  /\ run = 0
  /\ earlier = [c \in Contents |-> NoSummary]
  /\ pc = "idle"
  /\ video = NoVideo
  /\ client = NoClient
  /\ stage = None
  /\ pds_did = None
  /\ service_auth = [s \in Stages |-> NoToken]
  /\ job_id = None
  /\ attempt = 0
  /\ state = None
  /\ error = None
  /\ video_result = NoResult
  /\ args = NoArgs
  /\ record = NoRecord
  /\ post_result = NoPost
  /\ result = NotReturned
  /\ log = <<>>
  /\ sleeps = 0
  /\ lastStatus = NoStatus

\* ------------------------------------------------- the decisions of the code

\* (faulty variant: 'and' in place of 'or')
CredentialsConfiguredEither(c) ==
  ~(c.handle = PlaceholderHandle /\ c.password = Empty)

\* post_to_bluesky: the credentials guard
CredentialsConfigured(c) ==
  ~(c.handle = PlaceholderHandle \/ c.password = Empty)

\* create_session: status 200 and a body that parses
SessionAnswered(r) == ~r.raised /\ r.status = 200 /\ r.json

\* create_session: data["accessJwt"], data["did"], data["handle"] are read and
\* stored in this order; the first missing key raises KeyError.
SessionAssign(c, r) ==
  IF r.accessJwt = Missing THEN c
  ELSE IF r.did = Missing THEN [c EXCEPT !.access_token = r.accessJwt]
  ELSE IF r.handle = Missing
       THEN [c EXCEPT !.access_token = r.accessJwt, !.did = r.did]
  ELSE [c EXCEPT !.access_token = r.accessJwt, !.did = r.did,
                 !.handle = r.handle]

\* (faulty variant: the body's keys are not required)
SessionCreatedAnyBody(r) == SessionAnswered(r)

\* create_session returns True
SessionCreated(r) ==
  /\ SessionAnswered(r)
  /\ r.accessJwt # Missing /\ r.did # Missing /\ r.handle # Missing

\* get_user_pds_did: the first service with id '#atproto_pds' and a non-empty
\* serviceEndpoint gives did:web:<netloc>; none gives None.
\* (faulty variant: the endpoint is not tested for emptiness)
RECURSIVE FirstPdsAnyEndpoint(_)
FirstPdsAnyEndpoint(services) ==
  IF services = <<>> THEN None
  ELSE LET service == Head(services)
       IN IF service = StringEntry THEN None
          ELSE IF service.id = "#atproto_pds"
          THEN DidWeb(Netloc(service.serviceEndpoint))
          ELSE FirstPdsAnyEndpoint(Tail(services))

\* An element that is not an object raises inside the loop; the except clause
\* of get_user_pds_did returns None.
RECURSIVE FirstPds(_)
FirstPds(services) ==
  IF services = <<>> THEN None
  ELSE LET service == Head(services)
       IN IF service = StringEntry THEN None
          ELSE IF service.id = "#atproto_pds" /\ service.serviceEndpoint # EmptyUrl
          THEN DidWeb(Netloc(service.serviceEndpoint))
          ELSE FirstPds(Tail(services))

\* get_user_pds_did: what it returns for a response
PdsDid(r) ==
  IF r.raised \/ r.status # 200 \/ ~r.json THEN None ELSE FirstPds(r.service)

\* get_service_auth: 'exp': int(time.time()) + 1800
\* (faulty variant: a lifetime of 15 minutes)
ExpiryQuarterHour(t) == t + 900
Expiry(t) == t + TokenLifetime

\* get_service_auth: the getServiceAuth request
\* (faulty variant: the user's own DID as the audience)
AuthRequestWithUserDid(c, aud) ==
  [bearer |-> c.access_token, aud |-> c.did,
   lxm |-> "com.atproto.repo.uploadBlob", exp |-> Expiry(now)]
AuthRequest(c, aud) ==
  [bearer |-> c.access_token, aud |-> aud,
   lxm |-> "com.atproto.repo.uploadBlob", exp |-> Expiry(now)]

\* get_service_auth: what it returns for a response (response.json()["token"])
ServiceAuth(r) ==
  IF ~r.raised /\ r.status = 200 /\ r.json /\ r.hasToken THEN r.token ELSE NoToken

\* upload_video: where the response leads: to wait_for_video_processing ("wait"),
\* to get_completed_job_blob ("blob") or to return None ("fail").
\* (faulty variants: every 409 with a job id goes to the poll loop; every 409
\* is a failure)
UploadOutcomeConflictPolls(r) ==
  IF r.raised THEN "fail"
  ELSE IF r.status \in {200, 409}
       THEN IF r.json /\ Truthy(Get(r.jobId)) THEN "wait" ELSE "fail"
  ELSE "fail"
UploadOutcomeConflictFails(r) ==
  IF ~r.raised /\ r.status = 200 /\ r.json /\ Truthy(Get(r.jobId))
  THEN "wait" ELSE "fail"
UploadOutcome(r) ==
  IF r.raised THEN "fail"
  ELSE IF r.status = 200
       THEN IF r.json /\ Truthy(Get(r.jobId)) THEN "wait" ELSE "fail"
  ELSE IF r.status = 409
       THEN IF r.json /\ Get(r.state) = JOB_STATE_COMPLETED /\ Truthy(Get(r.jobId))
            THEN "blob" ELSE "fail"
  ELSE "fail"

\* wait_for_video_processing: job_status.get("state"); a response without the
\* jobStatus key reads as {} and has no state.
PollState(r) == IF r.jobStatus = "object" THEN Get(r.state) ELSE None
PollBlob(r) == IF r.jobStatus = "object" THEN Get(r.blob) ELSE None

\* the status response was read up to job_status.get(...): jobStatus null raises
\* AttributeError.
StatusRead(r) == ~r.raised /\ r.status = 200 /\ r.json /\ r.jobStatus # "null"

\* (faulty variant: a response with an error status ends the poll)
PollOutcomeErrorStatusFails(r) ==
  IF r.raised THEN "fail"
  ELSE IF r.status = 200
       THEN IF ~StatusRead(r) THEN "fail"
            ELSE IF PollState(r) = JOB_STATE_COMPLETED
                 THEN IF Truthy(PollBlob(r)) THEN "blob" ELSE "fail"
            ELSE IF PollState(r) = JOB_STATE_FAILED THEN "fail"
            ELSE "sleep"
  ELSE "fail"

\* (faulty variant: a transport error is polled again like an error status)
PollOutcomeRaisedSleeps(r) ==
  IF r.raised THEN "sleep"
  ELSE IF r.status = 200
       THEN IF ~StatusRead(r) THEN "fail"
            ELSE IF PollState(r) = JOB_STATE_COMPLETED
                 THEN IF Truthy(PollBlob(r)) THEN "blob" ELSE "fail"
            ELSE IF PollState(r) = JOB_STATE_FAILED THEN "fail"
            ELSE "sleep"
  ELSE "sleep"

\* (faulty variant: COMPLETED without a blob is polled again)
PollOutcomeBlobAwaited(r) ==
  IF r.raised THEN "fail"
  ELSE IF r.status = 200
       THEN IF ~StatusRead(r) THEN "fail"
            ELSE IF PollState(r) = JOB_STATE_COMPLETED
                 THEN IF Truthy(PollBlob(r)) THEN "blob" ELSE "sleep"
            ELSE IF PollState(r) = JOB_STATE_FAILED THEN "fail"
            ELSE "sleep"
  ELSE "sleep"

\* (faulty variant: a state outside the five known ones ends the poll)
PollOutcomeUnknownFails(r) ==
  IF r.raised THEN "fail"
  ELSE IF r.status = 200
       THEN IF ~StatusRead(r) THEN "fail"
            ELSE IF PollState(r) = JOB_STATE_COMPLETED
                 THEN IF Truthy(PollBlob(r)) THEN "blob" ELSE "fail"
            ELSE IF PollState(r) \in {JOB_STATE_CREATED, JOB_STATE_RUNNING,
                                      JOB_STATE_ENCODING}
                 THEN "sleep"
            ELSE "fail"
  ELSE "sleep"

\* (faulty variant: a FAILED job is polled again like a job in progress)
PollOutcomeFailedSleeps(r) ==
  IF r.raised THEN "fail"
  ELSE IF r.status = 200
       THEN IF ~StatusRead(r) THEN "fail"
            ELSE IF PollState(r) = JOB_STATE_COMPLETED
                 THEN IF Truthy(PollBlob(r)) THEN "blob" ELSE "fail"
            ELSE "sleep"
  ELSE "sleep"

\* (faulty variant: only CREATED and RUNNING count as still processing, any
\* other state ends the poll)
PollOutcomeEncodingEnds(r) ==
  IF r.raised THEN "fail"
  ELSE IF r.status = 200
       THEN IF ~StatusRead(r) THEN "fail"
            ELSE IF PollState(r) = JOB_STATE_COMPLETED
                 THEN IF Truthy(PollBlob(r)) THEN "blob" ELSE "fail"
            ELSE IF PollState(r) \in {JOB_STATE_CREATED, JOB_STATE_RUNNING}
                 THEN "sleep"
            ELSE "fail"
  ELSE "sleep"

\* wait_for_video_processing: where one status response leads: return the blob
\* ("blob"), return None ("fail"), or sleep and query again ("sleep").
PollOutcome(r) ==
  IF r.raised THEN "fail"
  ELSE IF r.status = 200
       THEN IF ~StatusRead(r) THEN "fail"
            ELSE IF PollState(r) = JOB_STATE_COMPLETED
                 THEN IF Truthy(PollBlob(r)) THEN "blob" ELSE "fail"
            ELSE IF PollState(r) = JOB_STATE_FAILED THEN "fail"
            ELSE "sleep"
  ELSE "sleep"

\* wait_for_video_processing: the for loop goes on after this sleep
\* (faulty variant: a while True loop)
LoopContinuesForever(n) == TRUE
LoopContinues(n) == n + 1 < max_attempts

\* (faulty variant: the blob is returned without the 'if blob_ref' test)
BlobOutcomeUntested(r) == IF StatusRead(r) THEN "blob" ELSE "fail"

\* get_completed_job_blob: where its one status response leads
BlobOutcome(r) ==
  IF StatusRead(r) /\ Truthy(PollBlob(r)) THEN "blob" ELSE "fail"

\* upload_video: the dict it returns
VideoResult(blob_ref, id) == [blob |-> blob_ref, jobId |-> id, state |-> "completed"]

\* post_to_bluesky: the arguments of create_post_with_video
PostArgs ==
  [text |-> "description and sunrise date", alt_text |-> "Southampton sunrise timelapse"]

\* create_post_with_video: record
\* (faulty variant: the alt key is set whatever the alt text)
BuildRecordAlwaysAlt(text, vr, alt_text) ==
  [type |-> "app.bsky.feed.post",
   text |-> text,
   createdAt |-> "utcnow",
   embed |-> [type |-> "app.bsky.embed.video", video |-> vr.blob,
              alt |-> alt_text]
             @@ (IF "aspectRatio" \in DOMAIN vr
                 THEN [aspectRatio |-> vr.aspectRatio] ELSE <<>>)]
BuildRecord(text, vr, alt_text) ==
  [type |-> "app.bsky.feed.post",
   text |-> text,
   createdAt |-> "utcnow",
   embed |-> [type |-> "app.bsky.embed.video", video |-> vr.blob]
             @@ (IF Truthy(alt_text) THEN [alt |-> alt_text] ELSE <<>>)
             @@ (IF "aspectRatio" \in DOMAIN vr
                 THEN [aspectRatio |-> vr.aspectRatio] ELSE <<>>)]

\* create_post_with_video: what it returns for a response
PostResult(r) ==
  IF ~r.raised /\ r.status = 200 /\ r.json
  THEN [returned |-> TRUE, uri |-> r.uri, cid |-> r.cid] ELSE NoPost

\* post_to_bluesky returns a bare bool, True or False: no error value comes with
\* it (the causes are printed or logged where they arise).
ReturnValue(ok) == [ok |-> ok, error |-> None]

\* post_to_bluesky: if post_result (None and {} are falsy)
\* (faulty variant: if post_result is not None)
PostTruthyNotNone(p) == p.returned
PostTruthy(p) == p.returned /\ ~(p.uri = Missing /\ p.cid = Missing)

\* ----------------------------------------------------------------- actions

Call(op, req, res) == [op |-> op, req |-> req, res |-> res]

\* the responses of the status queries are kept in lastStatus, not in the log
NotLogged == [logged |-> FALSE]

Sent(op) == {i \in 1..Len(log) : log[i].op = op}

\* The scripted server's answer to the n-th status query of the poll.
ScriptedStatus(n, table) ==
  {[res |-> script[k], jobs |-> table] : k \in {n} \cap (1..Len(script))}

\* A request returns at once or when its timeout is up; the timeout is taken as
\* the longest a request lasts.
Elapse(timeout) == \E d \in (IF timed THEN {0, timeout} ELSE {0}) : now' = now + d

\* post_to_bluesky returns
Return(ok) == pc' = "done" /\ result' = ReturnValue(ok)

\* What the keyed server's earlier attempts got, with the attempt that just ended.
Remember ==
  [earlier EXCEPT ![video.content] =
     [submitted |-> @.submitted \/ Sent("uploadVideo") # {},
      jobId |-> IF video_result # NoResult THEN video_result.jobId ELSE @.jobId,
      blob |-> IF video_result # NoResult THEN video_result.blob ELSE @.blob]]

\* post_to_bluesky(video_path, ...): a publish attempt starts; without
\* configured credentials it returns False at once.
post_to_bluesky(v) ==
  /\ pc \in {"idle", "done"}
  /\ keyed => run < MaxRuns
  /\ run' = IF keyed THEN run + 1 ELSE run
  /\ earlier' = IF keyed /\ pc = "done" THEN Remember ELSE earlier
  /\ Fresh(v)
  /\ IF CredentialsConfigured(cfg)
     THEN client' = NewClient /\ pc' = "create_session" /\ result' = NotReturned
     ELSE client' = NoClient /\ Return(FALSE)
  /\ UNCHANGED <<cfg, keyed, script, timed, now, main, other, jobs>>

\* client.create_session(handle, password), then the size check of
\* post_to_bluesky, then upload_video up to the directory lookup.
create_session ==
  /\ pc = "create_session"
  /\ \E r \in (IF keyed THEN WellBehavedSessionResponses ELSE SessionResponses) :
       /\ log' = Append(log, Call("createSession",
                    [identifier |-> cfg.handle, password |-> cfg.password], r))
       /\ client' = IF SessionAnswered(r) THEN SessionAssign(client, r) ELSE client
       /\ IF SessionCreated(r)
          THEN IF TooLarge(video.size)
               THEN Return(FALSE) /\ stage' = stage
               ELSE pc' = "get_user_pds_did" /\ stage' = "upload" /\ result' = result
          ELSE Return(FALSE) /\ stage' = stage
  /\ Elapse(RequestTimeout)
  /\ UNCHANGED <<env, server, video, pds_did, service_auth, job_id, attempt, state,
                 error, video_result, args, record, post_result, sleeps, lastStatus>>

\* get_user_pds_did(), called first by get_service_auth; without a PDS DID
\* get_service_auth returns None, and so does its caller.
Lookup(r) ==
  /\ log' = Append(log, Call("directory", [did |-> client.did], r))
  /\ pds_did' = PdsDid(r)
  /\ IF Truthy(PdsDid(r))
     THEN pc' = "get_service_auth" /\ result' = result
     ELSE Return(FALSE)
  /\ Elapse(RequestTimeout)
  /\ UNCHANGED <<env, server, video, client, stage, service_auth, job_id, attempt,
                 state, error, video_result, args, record, post_result, sleeps,
                 lastStatus>>

get_user_pds_did ==
  /\ pc = "get_user_pds_did"
  /\ \E r \in (IF keyed THEN WellBehavedDirectoryResponses ELSE DirectoryResponses) :
       Lookup(r)

\* get_service_auth(): the getServiceAuth request; the token goes to the caller.
get_service_auth ==
  /\ pc = "get_service_auth"
  /\ LET req == AuthRequest(client, pds_did)
     IN \E r \in (IF keyed THEN WellBehavedAuthResponses(req) ELSE AuthResponses(req)) :
          /\ log' = Append(log, Call("getServiceAuth", req, r))
          /\ service_auth' = [service_auth EXCEPT ![stage] = ServiceAuth(r)]
          /\ IF ServiceAuth(r) # NoToken
             THEN /\ pc' = CASE stage = "upload" -> "upload_video"
                             [] stage = "wait" -> "wait_for_video_processing"
                             [] OTHER -> "get_completed_job_blob"
                  /\ result' = result
             ELSE Return(FALSE)
  /\ Elapse(RequestTimeout)
  /\ UNCHANGED <<env, server, video, client, stage, pds_did, job_id, attempt,
                 state, error, video_result, args, record, post_result, sleeps,
                 lastStatus>>

\* (faulty variant: the stage after the upload goes on with the upload's token
\* and asks for none of its own)
upload_video_keeps_token ==
  /\ pc = "upload_video"
  /\ LET req == [bearer |-> service_auth["upload"], did |-> client.did,
                 name |-> "video.mp4", data |-> video.content]
     IN \E x \in (IF keyed THEN KeyedUpload(video.content, jobs)
                  ELSE {[res |-> r, jobs |-> jobs] : r \in UploadResponses}) :
          /\ jobs' = x.jobs
          /\ log' = Append(log, Call("uploadVideo", req, x.res))
          /\ job_id' = IF ~x.res.raised /\ x.res.status \in {200, 409} /\ x.res.json
                       THEN Get(x.res.jobId) ELSE job_id
          /\ IF UploadOutcome(x.res) = "fail"
             THEN Return(FALSE) /\ UNCHANGED <<stage, service_auth>>
             ELSE /\ pc' = IF UploadOutcome(x.res) = "wait"
                           THEN "wait_for_video_processing"
                           ELSE "get_completed_job_blob"
                  /\ stage' = UploadOutcome(x.res)
                  /\ service_auth' = [service_auth EXCEPT
                                        ![UploadOutcome(x.res)] = service_auth["upload"]]
                  /\ result' = result
  /\ Elapse(UploadTimeout)
  /\ UNCHANGED <<env, run, earlier, video, client, pds_did, attempt,
                 state, error, video_result, args, record, post_result, sleeps,
                 lastStatus>>

\* upload_video(video_path): the uploadVideo request and the branch on its status.
upload_video ==
  /\ pc = "upload_video"
  /\ LET req == [bearer |-> service_auth["upload"], did |-> client.did,
                 name |-> "video.mp4", data |-> video.content]
     IN \E x \in (IF keyed THEN KeyedUpload(video.content, jobs)
                  ELSE {[res |-> r, jobs |-> jobs] : r \in UploadResponses}) :
          /\ jobs' = x.jobs
          /\ log' = Append(log, Call("uploadVideo", req, x.res))
          /\ job_id' = IF ~x.res.raised /\ x.res.status \in {200, 409} /\ x.res.json
                       THEN Get(x.res.jobId) ELSE job_id
          /\ IF UploadOutcome(x.res) = "fail"
             THEN Return(FALSE) /\ stage' = stage
             ELSE /\ pc' = "get_user_pds_did"
                  /\ stage' = UploadOutcome(x.res)
                  /\ result' = result
  /\ Elapse(UploadTimeout)
  /\ UNCHANGED <<env, run, earlier, video, client, pds_did, service_auth, attempt,
                 state, error, video_result, args, record, post_result, sleeps,
                 lastStatus>>

\* wait_for_video_processing(job_id): one getJobStatus query of the for loop.
wait_for_video_processing ==
  /\ pc = "wait_for_video_processing"
  /\ attempt < max_attempts
  /\ LET req == [bearer |-> service_auth["wait"], jobId |-> job_id]
     IN \E x \in (IF script # <<>> THEN ScriptedStatus(attempt + 1, jobs)
                  ELSE IF keyed THEN KeyedStatus(job_id, jobs)
                  ELSE {[res |-> r, jobs |-> jobs] : r \in StatusResponses}) :
          /\ jobs' = x.jobs
          /\ log' = Append(log, Call("getJobStatus", req, NotLogged))
          /\ lastStatus' = x.res
          /\ state' = IF StatusRead(x.res) THEN PollState(x.res) ELSE state
          /\ error' = IF StatusRead(x.res) /\ PollState(x.res) = JOB_STATE_FAILED
                      THEN GetOr(x.res.error, "Unknown error") ELSE error
          /\ IF PollOutcome(x.res) = "blob"
             THEN /\ video_result' = VideoResult(PollBlob(x.res), job_id)
                  /\ args' = PostArgs
                  /\ pc' = "create_post_with_video"
                  /\ result' = result
             ELSE IF PollOutcome(x.res) = "sleep"
             THEN /\ pc' = "sleep"
                  /\ UNCHANGED <<video_result, args, result>>
             ELSE Return(FALSE) /\ UNCHANGED <<video_result, args>>
  /\ Elapse(RequestTimeout)
  /\ UNCHANGED <<env, run, earlier, video, client, stage, pds_did, service_auth,
                 job_id, attempt, record, post_result, sleeps>>

\* time.sleep(10); continue: the next attempt, or the time-out after the last.
sleep ==
  /\ pc = "sleep"
  /\ sleeps' = sleeps + 1
  /\ attempt' = attempt + 1
  /\ IF LoopContinues(attempt)
     THEN pc' = "wait_for_video_processing" /\ result' = result
     ELSE Return(FALSE)
  /\ now' = now + (IF timed THEN SleepSeconds ELSE 0)
  /\ UNCHANGED <<env, server, video, client, stage, pds_did, service_auth, job_id,
                 state, error, video_result, args, record, post_result, log,
                 lastStatus>>

\* get_completed_job_blob(job_id): its one getJobStatus query.
get_completed_job_blob ==
  /\ pc = "get_completed_job_blob"
  /\ LET req == [bearer |-> service_auth["blob"], jobId |-> job_id]
     IN \E x \in (IF keyed THEN KeyedStatus(job_id, jobs)
                  ELSE {[res |-> r, jobs |-> jobs] : r \in StatusResponses}) :
          /\ jobs' = x.jobs
          /\ log' = Append(log, Call("getJobStatus", req, NotLogged))
          /\ lastStatus' = x.res
          /\ IF BlobOutcome(x.res) = "blob"
             THEN /\ video_result' = VideoResult(PollBlob(x.res), job_id)
                  /\ args' = PostArgs
                  /\ pc' = "create_post_with_video"
                  /\ result' = result
             ELSE Return(FALSE) /\ UNCHANGED <<video_result, args>>
  /\ Elapse(RequestTimeout)
  /\ UNCHANGED <<env, run, earlier, video, client, stage, pds_did, service_auth,
                 job_id, attempt, state, error, record, post_result, sleeps>>

\* (faulty variant: createRecord is sent again until it is accepted)
create_post_with_video_until_accepted ==
  /\ pc = "create_post_with_video"
  /\ LET rec == BuildRecord(args.text, video_result, args.alt_text)
         req == [bearer |-> client.access_token, repo |-> client.did,
                 collection |-> "app.bsky.feed.post", record |-> rec]
     IN \E r \in PostResponses :
          /\ record' = rec
          /\ log' = Append(log, Call("createRecord", req, r))
          /\ post_result' = PostResult(r)
          /\ IF PostTruthy(PostResult(r))
             THEN Return(TRUE)
             ELSE pc' = pc /\ result' = result
  /\ Elapse(RequestTimeout)
  /\ UNCHANGED <<env, server, video, client, stage, pds_did, service_auth, job_id,
                 attempt, state, error, video_result, args, sleeps, lastStatus>>

\* create_post_with_video(text, video_result, alt_text): the record, the
\* createRecord request, and post_to_bluesky's return on its result.
create_post_with_video ==
  /\ pc = "create_post_with_video"
  /\ LET rec == BuildRecord(args.text, video_result, args.alt_text)
         req == [bearer |-> client.access_token, repo |-> client.did,
                 collection |-> "app.bsky.feed.post", record |-> rec]
     IN \E r \in PostResponses :
          /\ record' = rec
          /\ log' = Append(log, Call("createRecord", req, r))
          /\ post_result' = PostResult(r)
          /\ Return(PostTruthy(PostResult(r)))
  /\ Elapse(RequestTimeout)
  /\ UNCHANGED <<env, server, video, client, stage, pds_did, service_auth, job_id,
                 attempt, state, error, video_result, args, sleeps, lastStatus>>

Next ==
  \/ \E v \in Videos : post_to_bluesky(v)
  \/ create_session
  \/ get_user_pds_did
  \/ get_service_auth
  \/ upload_video
  \/ wait_for_video_processing
  \/ sleep
  \/ get_completed_job_blob
  \/ create_post_with_video

Spec == Init /\ [][Next]_vars

\* ------------------------------------- create_post_with_video on its own
\* create_post_with_video(text, video_result, alt_text) called by a client with
\* a session, for any caption, any alt text (the default "" and None included)
\* and a video result with or without an aspectRatio key.

AspectRatios == {[width |-> 800, height |-> 800], [width |-> 16, height |-> 9]}

VideoResults ==
  LET plain == {VideoResult(b, j) : b \in {"bafy123", "bafy456"},
                                    j \in {"job-1", "job-2"}}
  IN plain \cup {vr @@ [aspectRatio |-> ar] : vr \in plain, ar \in AspectRatios}

AltTexts == {Empty, None, "Sunrise timelapse", "Southampton sunrise timelapse"}

InitPost ==
  /\ cfg \in {c \in Configs : CredentialsConfigured(c)}
  /\ keyed = FALSE
  /\ script = <<>>
  /\ timed = FALSE
  /\ now = 0
  /\ main = Running
  /\ other = NotStarted
  /\ jobs = [c \in Contents |-> "absent"]
  /\ run = 0
  /\ earlier = [c \in Contents |-> NoSummary]
  /\ pc = "create_post_with_video"
  /\ video = NoVideo
  /\ client \in {SessionAssign(NewClient, r) : r \in {x \in SessionResponses : SessionCreated(x)}}
  /\ stage = None
  /\ pds_did = None
  /\ service_auth = [s \in Stages |-> NoToken]
  /\ job_id = None
  /\ attempt = 0
  /\ state = None
  /\ error = None
  /\ video_result \in VideoResults
  /\ args \in [text : {"Dawn over the harbor", Empty}, alt_text : AltTexts]
  /\ record = NoRecord
  /\ post_result = NoPost
  /\ result = NotReturned
  /\ log = <<>>
  /\ sleeps = 0
  /\ lastStatus = NoStatus

NextPost == create_post_with_video

SpecPost == InitPost /\ [][NextPost]_vars

\* ---------------------------------------------- get_user_pds_did on its own
\* get_user_pds_did() called by a client with a session, from any of the three
\* callers of get_service_auth, against any identity document.

Pds1 == Url("https", "pds1.example")
Pds2 == Url("https", "pds2.example")

ResolveDocuments ==
  DirectoryResponses \cup
  { DocOk(<<PdsEntry(EmptyUrl), PdsEntry(Pds1)>>),
    DocOk(<<PdsEntry(Pds1), PdsEntry(Pds2)>>),
    DocOk(<<PdsEntry(Pds2), OtherEntry(Pds1)>>),
    DocOk(<<PdsEntry(EmptyUrl)>>),
    DocOk(<<OtherEntry(Pds1)>>),
    DocOk(<<[id |-> Missing, serviceEndpoint |-> Pds1]>>),
    DocOk(<<PdsEntry(Url("http", "localhost:2583"))>>),
    DocOk(<<StringEntry, PdsEntry(Pds1)>>),
    DocOk(<<PdsEntry(Pds1), StringEntry>>),
    [DocOk(<<PdsEntry(Pds1)>>) EXCEPT !.status = 500],
    [DocOk(<<PdsEntry(Pds1)>>) EXCEPT !.raised = TRUE] }

InitResolve ==
  /\ cfg \in {c \in Configs : CredentialsConfigured(c)}
  /\ keyed = FALSE
  /\ script = <<>>
  /\ timed = FALSE
  /\ now = 0
  /\ main = Running
  /\ other = NotStarted
  /\ jobs = [c \in Contents |-> "absent"]
  /\ run = 0
  /\ earlier = [c \in Contents |-> NoSummary]
  /\ pc = "get_user_pds_did"
  /\ video \in {v \in Videos : ~TooLarge(v.size)}
  /\ client \in {SessionAssign(NewClient, SessionOk("jwt1", d, "sunrise.bsky.social")) :
                    d \in {"did:plc:abc123", "did:plc:xyz789"}}
  /\ stage \in Stages
  /\ pds_did = None
  /\ service_auth = [s \in Stages |-> NoToken]
  /\ job_id = None
  /\ attempt = 0
  /\ state = None
  /\ error = None
  /\ video_result = NoResult
  /\ args = NoArgs
  /\ record = NoRecord
  /\ post_result = NoPost
  /\ result = NotReturned
  /\ log = <<>>
  /\ sleeps = 0
  /\ lastStatus = NoStatus

resolve ==
  /\ pc = "get_user_pds_did"
  /\ \E r \in ResolveDocuments : Lookup(r)

NextResolve == resolve

SpecResolve == InitResolve /\ [][NextResolve]_vars

\* ----------------------------------------- post_to_bluesky, scripted polling
\* Publish attempts against a video server whose status responses to the poll
\* are fixed in advance: up to two non-terminal (or unknown) states, then a
\* terminal one. Every other response is any response.

Scripts ==
  LET waitings == {StatusResp(JOB_STATE_RUNNING, Missing, Missing),
                   StatusResp(JOB_STATE_ENCODING, Missing, Missing),
                   StatusResp(JOB_STATE_OTHER, Missing, Missing)}
      endings == {StatusResp(JOB_STATE_COMPLETED, "bafy123", Missing),
                  StatusResp(JOB_STATE_COMPLETED, "bafy456", Missing),
                  StatusResp(JOB_STATE_FAILED, Missing, "transcode error")}
      prefixes == {<<>>} \cup {<<a>> : a \in waitings}
                         \cup {<<a, b>> : a \in waitings, b \in waitings}
  IN {p \o <<e>> : p \in prefixes, e \in endings}

InitScenario ==
  /\ cfg \in Configs
  /\ keyed = FALSE
  /\ script \in Scripts
  /\ timed = FALSE
  /\ now = 0
  /\ main = Running
  /\ other = NotStarted
  /\ jobs = [c \in Contents |-> "absent"]
  /\ run = 0
  /\ earlier = [c \in Contents |-> NoSummary]
  /\ pc = "idle"
  /\ video = NoVideo
  /\ client = NoClient
  /\ stage = None
  /\ pds_did = None
  /\ service_auth = [s \in Stages |-> NoToken]
  /\ job_id = None
  /\ attempt = 0
  /\ state = None
  /\ error = None
  /\ video_result = NoResult
  /\ args = NoArgs
  /\ record = NoRecord
  /\ post_result = NoPost
  /\ result = NotReturned
  /\ log = <<>>
  /\ sleeps = 0
  /\ lastStatus = NoStatus

SpecScenario == InitScenario /\ [][Next]_vars

\* --------------------------------------------- the token stages, with a clock
\* One publish attempt from its first get_service_auth on, by a client with a
\* session, against the content-keyed server (which may hold the video already)
\* with time passing: every request takes nothing or its whole timeout, every
\* sleep its 10 seconds.

InitClock ==
  /\ cfg \in {c \in Configs : CredentialsConfigured(c)}
  /\ keyed = TRUE
  /\ script = <<>>
  /\ timed = TRUE
  /\ now \in {0, RequestTimeout}
  /\ main = Running
  /\ other = NotStarted
  /\ video \in {v \in Videos : ~TooLarge(v.size)}
  /\ jobs \in {[c \in Contents |-> IF c = video.content THEN st ELSE "absent"] :
                  st \in {"absent", JOB_STATE_COMPLETED}}
  /\ run = 1
  /\ earlier = [c \in Contents |-> NoSummary]
  /\ pc = "get_user_pds_did"
  /\ client = SessionAssign(NewClient,
                 SessionOk("jwt1", "did:plc:abc123", "sunrise.bsky.social"))
  /\ stage = "upload"
  /\ pds_did = None
  /\ service_auth = [s \in Stages |-> NoToken]
  /\ job_id = None
  /\ attempt = 0
  /\ state = None
  /\ error = None
  /\ video_result = NoResult
  /\ args = NoArgs
  /\ record = NoRecord
  /\ post_result = NoPost
  /\ result = NotReturned
  /\ log = <<>>
  /\ sleeps = 0
  /\ lastStatus = NoStatus

NextClock ==
  \/ get_user_pds_did
  \/ get_service_auth
  \/ upload_video
  \/ wait_for_video_processing
  \/ sleep
  \/ get_completed_job_blob
  \/ create_post_with_video

SpecClock == InitClock /\ [][NextClock]_vars

\* --------------------------------------------------------------------- main
\* main() from the call of post_to_bluesky on (the final video exists): the
\* publish attempt, then cleanup_old_files and the return value; a
\* KeyboardInterrupt may be raised at any point of it.

\* (faulty variant: the poll loop catches every exception, KeyboardInterrupt
\* included, with a bare except)
PropagatesUnlessPolling(at) == at \notin {"wait_for_video_processing", "sleep"}

\* The handlers between the poll loop and main are all 'except Exception',
\* which does not catch KeyboardInterrupt: raised at any statement of the
\* attempt it reaches main's 'except KeyboardInterrupt'.
Propagates(at) == TRUE

\* (faulty variant: main reports what post_to_bluesky returned)
MainSuccessIfPosted(posted, cleanup) == posted /\ cleanup = "done"

\* main: return True after the cleanup step, whatever 'posted' is; an exception
\* of the cleanup step reaches 'except Exception' and main returns False.
MainSuccess(posted, cleanup) == cleanup = "done"

\* main: timelapse.cleanup_old_files() after post_to_bluesky returned, and the
\* return that follows; item.unlink() may raise OSError.
cleanup_old_files ==
  /\ pc = "done"
  /\ \E c \in {"done", "raised"} :
       main' = [returned |-> TRUE, success |-> MainSuccess(result.ok, c),
                cleanup |-> c, interrupted |-> None]
  /\ pc' = "exit"
  /\ UNCHANGED <<cfg, keyed, script, timed, now, other, server, video, client, stage,
                 pds_did, service_auth, job_id, attempt, state, error,
                 video_result, args, record, post_result, result, log, sleeps,
                 lastStatus>>

\* SIGINT while the publish attempt runs (in a request, in time.sleep(10), or
\* in the cleanup step): KeyboardInterrupt is raised at the current statement.
KeyboardInterrupt ==
  /\ pc \notin {"idle", "exit"}
  /\ IF Propagates(pc)
     THEN /\ main' = [returned |-> TRUE, success |-> FALSE, cleanup |-> "none",
                      interrupted |-> pc]
          /\ pc' = "exit"
          /\ result' = result
     ELSE /\ main' = [main EXCEPT !.interrupted = pc]
          /\ Return(FALSE)
  /\ UNCHANGED <<cfg, keyed, script, timed, now, other, server, video, client, stage,
                 pds_did, service_auth, job_id, attempt, state, error,
                 video_result, args, record, post_result, log, sleeps,
                 lastStatus>>

InitMain ==
  /\ cfg \in Configs
  /\ keyed = FALSE
  /\ script = <<>>
  /\ timed = FALSE
  /\ now = 0
  /\ main = Running
  /\ other = NotStarted
  /\ jobs = [c \in Contents |-> "absent"]
  /\ run = 0
  /\ earlier = [c \in Contents |-> NoSummary]
  /\ pc = "idle"
  /\ video = NoVideo
  /\ client = NoClient
  /\ stage = None
  /\ pds_did = None
  /\ service_auth = [s \in Stages |-> NoToken]
  /\ job_id = None
  /\ attempt = 0
  /\ state = None
  /\ error = None
  /\ video_result = NoResult
  /\ args = NoArgs
  /\ record = NoRecord
  /\ post_result = NoPost
  /\ result = NotReturned
  /\ log = <<>>
  /\ sleeps = 0
  /\ lastStatus = NoStatus

NextMain ==
  \/ pc = "idle" /\ \E v \in Videos : post_to_bluesky(v)
  \/ create_session
  \/ get_user_pds_did
  \/ get_service_auth
  \/ upload_video
  \/ wait_for_video_processing
  \/ sleep
  \/ get_completed_job_blob
  \/ create_post_with_video
  \/ cleanup_old_files
  \/ KeyboardInterrupt

SpecMain == InitMain /\ [][NextMain]_vars

\* ------------------------------------------------- two interleaved attempts
\* Two publish attempts for different assets in one process, against the
\* content-keyed server with scripted status responses: one runs, the other is
\* suspended, and control may pass from one to the other between any two steps.

\* the locals of the running attempt
Local ==
  [pc |-> pc, video |-> video, client |-> client, stage |-> stage,
   pds_did |-> pds_did, service_auth |-> service_auth, job_id |-> job_id,
   attempt |-> attempt, state |-> state, error |-> error,
   video_result |-> video_result, args |-> args, record |-> record,
   post_result |-> post_result, result |-> result, log |-> log,
   sleeps |-> sleeps, lastStatus |-> lastStatus]

\* (faulty variant: one module-level client used by every attempt)
SharedClient(running, suspended) == running

\* post_to_bluesky: client = FixedBlueSkyClient() is a local of the call and
\* its access_token, did and handle are fields of that object: the attempt that
\* resumes finds its own client.
ResumedClient(running, suspended) == suspended

\* control passes to the other attempt
switch ==
  /\ other' = Local
  /\ pc' = other.pc
  /\ video' = other.video
  /\ client' = ResumedClient(client, other.client)
  /\ stage' = other.stage
  /\ pds_did' = other.pds_did
  /\ service_auth' = other.service_auth
  /\ job_id' = other.job_id
  /\ attempt' = other.attempt
  /\ state' = other.state
  /\ error' = other.error
  /\ video_result' = other.video_result
  /\ args' = other.args
  /\ record' = other.record
  /\ post_result' = other.post_result
  /\ result' = other.result
  /\ log' = other.log
  /\ sleeps' = other.sleeps
  /\ lastStatus' = other.lastStatus
  /\ UNCHANGED <<cfg, keyed, script, timed, now, main, server>>

\* an attempt starts, for an asset the other attempt does not publish
start ==
  /\ pc = "idle"
  /\ \E v \in Videos : v.content # other.video.content /\ post_to_bluesky(v)

InitTwo ==
  /\ cfg \in {c \in Configs : CredentialsConfigured(c)}
  /\ keyed = TRUE
  /\ script \in {x \in Scripts : Len(x) <= 2}
  /\ timed = FALSE
  /\ now = 0
  /\ main = Running
  /\ other = NotStarted
  /\ jobs \in {[c \in Contents |-> IF c = "bytesA" THEN st ELSE "absent"] :
                  st \in {"absent", JOB_STATE_COMPLETED}}
  /\ run = 0
  /\ earlier = [c \in Contents |-> NoSummary]
  /\ pc = "idle"
  /\ video = NoVideo
  /\ client = NoClient
  /\ stage = None
  /\ pds_did = None
  /\ service_auth = [s \in Stages |-> NoToken]
  /\ job_id = None
  /\ attempt = 0
  /\ state = None
  /\ error = None
  /\ video_result = NoResult
  /\ args = NoArgs
  /\ record = NoRecord
  /\ post_result = NoPost
  /\ result = NotReturned
  /\ log = <<>>
  /\ sleeps = 0
  /\ lastStatus = NoStatus

NextTwo ==
  \/ start
  \/ switch
  \/ create_session
  \/ get_user_pds_did
  \/ get_service_auth
  \/ upload_video
  \/ wait_for_video_processing
  \/ sleep
  \/ get_completed_job_blob
  \/ create_post_with_video

SpecTwo == InitTwo /\ [][NextTwo]_vars

\* ------------------------------------------------------------------ claims

\* the response of the uploadVideo call of this attempt (one at most is sent)
UploadResponse == log[CHOOSE i \in Sent("uploadVideo") : TRUE].res

\* C1: in a publish attempt for a video file larger than the 50 MiB ceiling the
\* attempt fails and no network call of any kind is made before the rejection.
C1_OversizeRejectedBeforeAnyCall ==
  (CredentialsConfigured(cfg) /\ video.size > 50 * 1024 * 1024) =>
     /\ log = <<>>
     /\ pc = "done" => ~result.ok

\* C2: wait_for_video_processing sends at most 30 getJobStatus queries whatever
\* the server answers: while it polls fewer than 30 attempts are used up, every
\* query and every sleep uses up one, and when the 30 queries brought no terminal
\* state it has returned without a blob and the attempt has failed.
C2_PollTerminates ==
  /\ Cardinality(Sent("getJobStatus")) <= 30
  /\ pc \in {"wait_for_video_processing", "sleep"} =>
       /\ attempt < 30
       /\ sleeps = attempt
       /\ Cardinality(Sent("getJobStatus")) =
            attempt + (IF pc = "sleep" THEN 1 ELSE 0)
  /\ sleeps = 30 =>
       /\ pc = "done"
       /\ ~result.ok
       /\ video_result = NoResult
       /\ Cardinality(Sent("getJobStatus")) = 30
       /\ Sent("createRecord") = {}

\* C2 witness: the poll timed out after 30 queries without a terminal state.
C2_Witness ==
  /\ pc = "done"
  /\ sleeps = 30
  /\ Cardinality(Sent("getJobStatus")) = 30
  /\ state \notin Terminal

\* the forward order of the non-terminal states: CREATED, RUNNING, ENCODING
Rank(st) ==
  CASE st = JOB_STATE_CREATED -> 1
    [] st = JOB_STATE_RUNNING -> 2
    [] st = JOB_STATE_ENCODING -> 3
    [] OTHER -> 0

\* the legal edges of the job state graph
LegalEdge(s, t) ==
  \/ s = t
  \/ s \in NonTerminal /\ t \in NonTerminal /\ Rank(t) > Rank(s)
  \/ s \in NonTerminal /\ t \in Terminal

\* C3: within one attempt the job state tracked by the poller changes only along
\* legal edges: from CREATED, RUNNING or ENCODING it stays, advances forward or
\* goes to COMPLETED or FAILED; it never regresses, and COMPLETED and FAILED are
\* never left.
C3_LegalEdges ==
  [][(pc = "wait_for_video_processing" /\ state \in NonTerminal \cup Terminal)
        => LegalEdge(state, state')]_vars

\* C4: when the poller has read FAILED, the attempt ends in a failure that
\* carries the error message of the status response, and createRecord is never
\* called.
C4_FailedCarriesMessage ==
  (pc = "done" /\ state = JOB_STATE_FAILED /\ lastStatus.error # Missing) =>
     /\ ~result.ok
     /\ Sent("createRecord") = {}
     /\ result.error = lastStatus.error

\* uploadVideo answered 409 with a job id and this state
Conflict(st) ==
  /\ Sent("uploadVideo") # {}
  /\ ~UploadResponse.raised /\ UploadResponse.status = 409 /\ UploadResponse.json
  /\ Truthy(UploadResponse.jobId)
  /\ UploadResponse.state = st

\* C5: when uploadVideo answers 409 with a jobId and COMPLETED, the blob is got
\* with one getJobStatus query for that jobId, the poll loop is never entered
\* (no sleep, no second query), and the result upload_video returns, which it
\* does exactly when that query brings a blob, carries that jobId and that blob.
C5_ConflictCompletedOneQuery ==
  Conflict(JOB_STATE_COMPLETED) =>
     /\ Cardinality(Sent("getJobStatus")) <= 1
     /\ sleeps = 0 /\ attempt = 0
     /\ pc \notin {"wait_for_video_processing", "sleep"}
     /\ \A i \in Sent("getJobStatus") : log[i].req.jobId = UploadResponse.jobId
     /\ video_result # NoResult =>
          /\ Cardinality(Sent("getJobStatus")) = 1
          /\ video_result = [blob |-> lastStatus.blob,
                             jobId |-> UploadResponse.jobId,
                             state |-> "completed"]
     /\ (pc \in {"create_post_with_video", "done"} /\ Sent("getJobStatus") # {}
         /\ ~lastStatus.raised /\ lastStatus.status = 200 /\ lastStatus.json
         /\ lastStatus.jobStatus = "object" /\ Truthy(lastStatus.blob))
        => video_result # NoResult

\* C5 witness: upload_video has returned the blob of the one status query after
\* a 409 COMPLETED answer.
C5_Witness ==
  /\ Conflict(JOB_STATE_COMPLETED)
  /\ pc = "create_post_with_video"
  /\ Cardinality(Sent("getJobStatus")) = 1
  /\ video_result.blob = lastStatus.blob
  /\ Truthy(video_result.blob)

\* C6: when uploadVideo answers 409 with a jobId and CREATED, RUNNING or
\* ENCODING, the upload is a success: the job is handed to the poller, so the
\* attempt does not end at the upload response.
C6_ConflictNonTerminalIsPolled ==
  (\E st \in NonTerminal : Conflict(st)) =>
     /\ stage = "wait"
     /\ pc = "done" => log[Len(log)].op # "uploadVideo"

\* C7: against the server that keys jobs by content, the first attempt that
\* submits some bytes takes the 200 path and every later one the 409 path; a
\* later attempt for bytes that an earlier attempt got a blob for goes on to
\* fetch the blob, and the result it ends with has the same jobId and the same
\* blob as the earlier one.
C7_ResubmitSameJobAndBlob ==
  (keyed /\ Sent("uploadVideo") # {}) =>
     LET e == earlier[video.content]
     IN /\ ~e.submitted => UploadResponse.status = 200
        /\ e.submitted => UploadResponse.status = 409
        /\ Truthy(e.blob) =>
             /\ Conflict(JOB_STATE_COMPLETED)
             /\ stage = "blob"
             /\ UploadResponse.jobId = e.jobId
             /\ video_result # NoResult =>
                  video_result.jobId = e.jobId /\ video_result.blob = e.blob

\* C7 witness: the second attempt for the same bytes ended with a result after
\* the first one had got a blob.
C7_Witness ==
  /\ keyed /\ run = 2 /\ pc = "done"
  /\ Truthy(earlier[video.content].blob)
  /\ Conflict(JOB_STATE_COMPLETED)
  /\ video_result.blob = earlier[video.content].blob
  /\ result.ok

\* a response with a success status and a body that parses
Answered(r) == ~r.raised /\ r.status = 200 /\ r.json

\* the call of a stage failed, by its response alone
CallFailed(c) ==
  CASE c.op = "createSession" ->
         ~(Answered(c.res) /\ c.res.accessJwt # Missing /\ c.res.did # Missing
           /\ c.res.handle # Missing)
    [] c.op = "directory" ->
         ~(Answered(c.res) /\ \E k \in 1..Len(c.res.service) :
              /\ c.res.service[k].id = "#atproto_pds"
              /\ c.res.service[k].serviceEndpoint # EmptyUrl)
    [] c.op = "getServiceAuth" -> ~(Answered(c.res) /\ c.res.hasToken)
    [] c.op = "uploadVideo" ->
         ~(~c.res.raised /\ c.res.status \in {200, 409} /\ c.res.json
           /\ Truthy(c.res.jobId))
    [] c.op = "createRecord" ->
         ~(Answered(c.res) /\ ~(c.res.uri = Missing /\ c.res.cid = Missing))
    [] OTHER -> FALSE

\* the last status response brought a blob
BlobObtained ==
  /\ Sent("getJobStatus") # {}
  /\ Answered(lastStatus) /\ lastStatus.jobStatus = "object"
  /\ Truthy(lastStatus.blob)

\* C8: post_to_bluesky returns True exactly when its last call is a createRecord
\* answered with success, which needs every stage before it to have succeeded;
\* a stage that fails (session, resolution, token, size check, upload, polling,
\* post) ends the attempt with False, and no call follows the failed one.
C8_FailureAborts ==
  /\ \A i \in 1..(Len(log) - 1) : ~CallFailed(log[i])
  /\ (pc # "done" /\ log # <<>>) => ~CallFailed(log[Len(log)])
  /\ video.size > 50 * 1024 * 1024 => Len(log) <= 1
  /\ Sent("createRecord") # {} =>
       /\ BlobObtained
       /\ sleeps < 30
       /\ state # JOB_STATE_FAILED
       /\ stage = "wait" => state = JOB_STATE_COMPLETED
  /\ pc = "done" =>
       (result.ok <=> /\ log # <<>>
                      /\ log[Len(log)].op = "createRecord"
                      /\ ~CallFailed(log[Len(log)]))

\* C8 witness: an attempt that went through every stage and returned True.
C8_Witness ==
  /\ pc = "done" /\ result.ok
  /\ log[Len(log)].op = "createRecord"

\* C9: the calls of an attempt follow the dependency chain: the directory lookup
\* only after a successful createSession and for its did; getServiceAuth right
\* after a successful resolution and for the audience it resolved; uploadVideo
\* right after a token was issued and with that token; getJobStatus only after
\* an upload response with a jobId, for that jobId, with the token issued last;
\* createRecord only after a status response brought a blob, which it embeds.
C9_DependencyChain ==
  \A i \in 1..Len(log) :
    LET c == log[i]
    IN /\ c.op = "directory" =>
            \E j \in 1..(i - 1) :
               /\ log[j].op = "createSession" /\ ~CallFailed(log[j])
               /\ c.req.did = log[j].res.did
       /\ c.op = "getServiceAuth" =>
            /\ i > 1 /\ log[i - 1].op = "directory" /\ ~CallFailed(log[i - 1])
            /\ c.req.aud = PdsDid(log[i - 1].res)
            /\ \E j \in 1..(i - 1) :
                  log[j].op = "createSession" /\ c.req.bearer = log[j].res.accessJwt
       /\ c.op = "uploadVideo" =>
            /\ i > 1 /\ log[i - 1].op = "getServiceAuth" /\ ~CallFailed(log[i - 1])
            /\ c.req.bearer = log[i - 1].res.token
       /\ c.op = "getJobStatus" =>
            /\ \E j \in 1..(i - 1) :
                  /\ log[j].op = "uploadVideo" /\ ~CallFailed(log[j])
                  /\ c.req.jobId = log[j].res.jobId
            /\ \E j \in 1..(i - 1) :
                  /\ log[j].op = "getServiceAuth" /\ ~CallFailed(log[j])
                  /\ \A k \in (j + 1)..(i - 1) : log[k].op = "getJobStatus"
                  /\ c.req.bearer = log[j].res.token
       /\ c.op = "createRecord" =>
            /\ i > 1 /\ log[i - 1].op = "getJobStatus"
            /\ BlobObtained
            /\ c.req.record.embed.video = lastStatus.blob

\* C9 witness: an attempt that made every call of the chain, with polling.
C9_Witness ==
  /\ pc = "done"
  /\ Sent("createRecord") # {}
  /\ Cardinality(Sent("getJobStatus")) >= 2
  /\ Cardinality(Sent("getServiceAuth")) = 2

\* C10: the record that create_post_with_video builds and sends always embeds
\* the blob of the video result; it holds the alt text exactly when the given alt
\* text is non-empty, and an aspect ratio exactly when the video result has one.
C10_RecordEmbed ==
  (pc = "done" /\ Sent("createRecord") # {}) =>
     LET sent == log[Len(log)].req.record
         e == sent.embed
     IN /\ sent = record
        /\ sent.text = args.text
        /\ e.type = "app.bsky.embed.video"
        /\ e.video = video_result.blob
        /\ "alt" \in DOMAIN e <=> args.alt_text \notin {Empty, None}
        /\ "alt" \in DOMAIN e => e.alt = args.alt_text
        /\ "aspectRatio" \in DOMAIN e <=> "aspectRatio" \in DOMAIN video_result
        /\ "aspectRatio" \in DOMAIN e => e.aspectRatio = video_result.aspectRatio

\* C10 witness: a record without alt text (the alt text given was empty) and
\* with the aspect ratio of the video result.
C10_Witness ==
  /\ pc = "done" /\ Sent("createRecord") # {}
  /\ args.alt_text = Empty
  /\ "aspectRatio" \in DOMAIN video_result
  /\ "alt" \notin DOMAIN record.embed
  /\ record.embed.aspectRatio = video_result.aspectRatio
  /\ record.embed.video = video_result.blob

\* the positions of the identity document's PDS entries: objects with id
\* '#atproto_pds' and a non-empty endpoint
PdsEntries(r) ==
  {k \in 1..Len(r.service) : /\ r.service[k].id = "#atproto_pds"
                             /\ r.service[k].serviceEndpoint # EmptyUrl}

\* the document was fetched, parses, and has a PDS entry with only objects
\* before it
HasPdsEntry(r) ==
  /\ Answered(r)
  /\ PdsEntries(r) # {}
  /\ \A k \in 1..Len(r.service) :
       r.service[k] = StringEntry => \E h \in PdsEntries(r) : h < k

\* the audience named by the document's first PDS entry
AudienceOf(r) ==
  LET k == CHOOSE h \in PdsEntries(r) : \A j \in PdsEntries(r) : h <= j
  IN DidWeb(Netloc(r.service[k].serviceEndpoint))

\* C11: what get_user_pds_did returns is a function of the identity document
\* alone (whoever the user is and whichever stage asks): with a PDS entry, the
\* audience "did:web:" followed by the host of the first such entry's endpoint;
\* for a document that is unreachable, malformed or without such an entry, None,
\* and the attempt ends in failure without another call.
C11_AudienceFromDocument ==
  log # <<>> /\ log[Len(log)].op = "directory" =>
    LET r == log[Len(log)].res
    IN IF HasPdsEntry(r)
       THEN pds_did = AudienceOf(r) /\ pc = "get_service_auth"
       ELSE pds_did = None /\ pc = "done" /\ ~result.ok

\* a document whose first '#atproto_pds' entry has an empty endpoint and whose
\* second one names the host: the second one is the PDS entry
C11_Witness ==
  /\ log # <<>> /\ log[Len(log)].op = "directory"
  /\ log[Len(log)].res = DocOk(<<PdsEntry(EmptyUrl), PdsEntry(Pds1)>>)
  /\ pds_did = "did:web:pds1.example"

\* the status responses of the end-to-end scenario
Scenario ==
  <<StatusResp(JOB_STATE_RUNNING, Missing, Missing),
    StatusResp(JOB_STATE_ENCODING, Missing, Missing),
    StatusResp(JOB_STATE_COMPLETED, "bafy123", Missing)>>

\* the scenario's upload was answered 200 with a jobId, and the poller got its
\* token
ScenarioPolled ==
  /\ script = Scenario
  /\ Sent("uploadVideo") # {}
  /\ Answered(UploadResponse) /\ Truthy(UploadResponse.jobId)
  /\ service_auth["wait"] # NoToken

\* C12: in an attempt whose uploadVideo is answered 200 with a jobId and whose
\* status queries are answered RUNNING, ENCODING, COMPLETED with a blob, there
\* are never more than three status queries and one createRecord, and when the
\* attempt has ended there were exactly three status queries (with two sleeps)
\* and exactly one createRecord, whose record embeds that blob with the alt text
\* handed to create_post_with_video and without an aspect ratio.
C12_EndToEnd ==
  ScenarioPolled =>
    /\ Cardinality(Sent("getJobStatus")) <= 3
    /\ Cardinality(Sent("createRecord")) <= 1
    /\ pc = "done" =>
         /\ Cardinality(Sent("getJobStatus")) = 3
         /\ sleeps = 2
         /\ Cardinality(Sent("createRecord")) = 1
         /\ log[Len(log)].op = "createRecord"
         /\ log[Len(log)].req.record = record
         /\ record.embed = [type |-> "app.bsky.embed.video", video |-> "bafy123",
                            alt |-> args.alt_text]
         /\ Truthy(args.alt_text)

\* the scenario ran to its end and post_to_bluesky returned True
C12_Witness == ScenarioPolled /\ pc = "done" /\ result.ok

\* C13: when uploadVideo is answered 200 with a jobId, what upload_video
\* returns is a job in its initial non-terminal state with no blob, and status
\* queries are sent only after upload_video has returned it.
C13_UploadReturnsPendingJob ==
  /\ Sent("getJobStatus") # {} => video_result # NoResult
  /\ video_result # NoResult /\ stage = "wait" =>
       /\ video_result.blob = None
       /\ video_result.state \in NonTerminal

\* the createSession response has a success status and carries the access
\* token, the user id and the handle
CarriesSession(r) ==
  /\ Answered(r)
  /\ r.accessJwt # Missing /\ r.did # Missing /\ r.handle # Missing

\* C14: create_session succeeds exactly when the createSession response has a
\* success status and carries an access token, a user id and a handle. After
\* success the client's session holds exactly these three values and the attempt
\* goes on (to the size check, and for a video within the ceiling to the
\* upload); after any other response (transport error, other status, unparsable
\* or incomplete body) the attempt ends in failure with no further call.
C14_SessionIffComplete ==
  Sent("createSession") # {} =>
    LET r == log[1].res
    IN /\ log[1].op = "createSession"
       /\ Sent("createSession") = {1}
       /\ IF CarriesSession(r)
          THEN /\ client.access_token = r.accessJwt
               /\ client.did = r.did
               /\ client.handle = r.handle
               /\ IF TooLarge(video.size)
                  THEN pc = "done" /\ ~result.ok /\ Len(log) = 1
                  ELSE Len(log) > 1 \/ pc = "get_user_pds_did"
          ELSE pc = "done" /\ ~result.ok /\ Len(log) = 1

\* a session made from the second account's response, and the attempt went on
C14_Witness ==
  /\ Sent("createSession") # {}
  /\ log[1].res = SessionOk("jwt2", "did:plc:xyz789", "dawn.bsky.social")
  /\ client = [created |-> TRUE, access_token |-> "jwt2", did |-> "did:plc:xyz789",
               handle |-> "dawn.bsky.social"]
  /\ Len(log) > 1

\* the last status response of the poll reported a terminal state
TerminalReported ==
  /\ stage = "wait" /\ Sent("getJobStatus") # {}
  /\ StatusRead(lastStatus)
  /\ PollState(lastStatus) \in Terminal

\* the position in the log of the last status query
LastQuery == CHOOSE i \in Sent("getJobStatus") : \A j \in Sent("getJobStatus") : j <= i

\* C15: once a status response reports COMPLETED or FAILED,
\* wait_for_video_processing has returned: the poll neither sleeps nor queries
\* again (every sleep came before that query, and after it the log holds at most
\* the createRecord call).
C15_TerminalEndsPoll ==
  TerminalReported =>
    /\ pc \in {"create_post_with_video", "done"}
    /\ sleeps = Cardinality(Sent("getJobStatus")) - 1
    /\ attempt = sleeps
    /\ \A j \in (LastQuery + 1)..Len(log) : log[j].op = "createRecord"

\* the job failed at the second query, after one sleep
C15_Witness ==
  /\ TerminalReported
  /\ PollState(lastStatus) = JOB_STATE_FAILED
  /\ Cardinality(Sent("getJobStatus")) = 2
  /\ pc = "done"

\* the last status response of the poll had a state outside the five known
\* ones, or no state
UnknownReported ==
  /\ stage = "wait" /\ Sent("getJobStatus") # {}
  /\ StatusRead(lastStatus)
  /\ PollState(lastStatus) \notin NonTerminal \cup Terminal

\* C16: a status response with an unrecognized or missing state does not end
\* the poll: the poller sleeps once for it and queries again, the query having
\* used up one of the 30 attempts; after such a response the poll has ended only
\* if it was the 30th, and then by time-out, with failure.
C16_UnknownStateIsPolledAgain ==
  UnknownReported =>
    LET queries == Cardinality(Sent("getJobStatus"))
    IN \/ pc = "sleep" /\ attempt = queries - 1 /\ sleeps = queries - 1
       \/ /\ pc = "wait_for_video_processing"
          /\ attempt = queries /\ sleeps = queries /\ queries < max_attempts
       \/ /\ pc = "done" /\ ~result.ok
          /\ attempt = max_attempts /\ queries = max_attempts
          /\ sleeps = max_attempts
          /\ log[Len(log)].op = "getJobStatus"

\* the 30th query was answered with an unknown state and the poll timed out
C16_Witness ==
  /\ UnknownReported
  /\ PollState(lastStatus) = JOB_STATE_OTHER
  /\ pc = "done" /\ attempt = max_attempts

\* C17: within one publish attempt no stage but the status poll repeats its
\* call: at most one createSession, one uploadVideo and one createRecord are
\* sent (and on the conflict path one status query), and an attempt that
\* returned True sent createRecord exactly once.
C17_NoRetryOutsidePoll ==
  /\ Cardinality(Sent("createSession")) <= 1
  /\ Cardinality(Sent("uploadVideo")) <= 1
  /\ Cardinality(Sent("createRecord")) <= 1
  /\ stage = "blob" => Cardinality(Sent("getJobStatus")) <= 1
  /\ pc = "done" /\ result.ok => Cardinality(Sent("createRecord")) = 1

\* an attempt ended in failure on a rejected createRecord, sent once, after a
\* poll that had to query more than once
C17_Witness ==
  /\ pc = "done" /\ ~result.ok
  /\ Cardinality(Sent("createRecord")) = 1
  /\ log[Len(log)].res.status = 400
  /\ Cardinality(Sent("getJobStatus")) > 1

\* the operation a privileged call performs, as a token's lxm names it
Operation(op) ==
  IF op = "uploadVideo" THEN "com.atproto.repo.uploadBlob"
  ELSE "app.bsky.video.getJobStatus"

\* the privileged calls of the attempt: those authorized by a scoped token
Privileged == Sent("uploadVideo") \cup Sent("getJobStatus")

\* C18: the scoped token sent with a privileged call was minted for that call's
\* audience and operation: the token of uploadVideo for the upload operation at
\* the resolved audience, the token of getJobStatus for the status-check
\* operation, and a token minted for one operation is never sent with a call of
\* another operation.
C18_TokenMintedForItsCall ==
  \A i \in Privileged :
    /\ log[i].req.bearer.lxm = Operation(log[i].op)
    /\ \A j \in Privileged :
         log[i].op # log[j].op => log[i].req.bearer.lxm # log[j].req.bearer.lxm

\* the getServiceAuth calls of the attempt
Issued == Sent("getServiceAuth")

\* C20: each stage that makes privileged requests (upload_video, then
\* wait_for_video_processing or get_completed_job_blob) sends exactly one
\* getServiceAuth of its own, right before its first privileged request, and
\* presents the token of that answer in all its requests; a getServiceAuth that
\* brings no token ends the stage and the attempt in failure with no privileged
\* request after it.
C20_OneIssuancePerStage ==
  /\ Cardinality({i \in Issued : \A u \in Sent("uploadVideo") : i < u}) <= 1
  /\ Cardinality({i \in Issued : \E u \in Sent("uploadVideo") : u < i}) <= 1
  /\ \A u \in Sent("uploadVideo") :
       /\ u > 1 /\ log[u - 1].op = "getServiceAuth"
       /\ log[u].req.bearer = ServiceAuth(log[u - 1].res)
  /\ Sent("getJobStatus") # {} =>
       LET q == CHOOSE i \in Sent("getJobStatus") :
                  \A j \in Sent("getJobStatus") : i <= j
       IN /\ log[q - 1].op = "getServiceAuth"
          /\ \E u \in Sent("uploadVideo") : u < q - 1
          /\ \A j \in Sent("getJobStatus") :
               log[j].req.bearer = ServiceAuth(log[q - 1].res)
  /\ \A i \in Issued :
       ServiceAuth(log[i].res) = NoToken =>
         i = Len(log) /\ pc = "done" /\ ~result.ok

\* the poller's own issuance was refused after an accepted upload: two
\* getServiceAuth calls, no status query, failure
C20_Witness ==
  /\ Cardinality(Issued) = 2
  /\ Sent("uploadVideo") # {}
  /\ log[Len(log)].op = "getServiceAuth" /\ log[Len(log)].res.status = 400
  /\ Sent("getJobStatus") = {}
  /\ pc = "done" /\ ~result.ok

\* a step that sends a privileged request (uploadVideo or getJobStatus)
SendsPrivileged ==
  /\ pc \in {"upload_video", "wait_for_video_processing", "get_completed_job_blob"}
  /\ Len(log') = Len(log) + 1

\* the longest time from asking for the poll's token to sending the last status
\* query: the getServiceAuth request, then 29 queries each followed by a sleep
LongestPoll ==
  RequestTimeout + (max_attempts - 1) * (RequestTimeout + SleepSeconds)

\* C19: a privileged request is never sent with a scoped token whose expiry
\* has passed. With the expiry set 1800 s ahead when the token is asked for,
\* requests that last at most their timeout (30 s, 600 s for the upload), 10 s
\* sleeps and at most 30 attempts, the one token of the poll loop is asked for at
\* most 1190 s before the last status query is sent, which leaves it 610 s.
C19_TokenUnexpiredWhenSent ==
  [][SendsPrivileged =>
       /\ now < service_auth[stage].exp
       /\ pc = "wait_for_video_processing" =>
            service_auth[stage].exp - now >= TokenLifetime - LongestPoll]_vars

\* the 30th status query has been sent as late as it can be: the token was
\* asked for 1190 s before it was sent
C19_Witness ==
  /\ stage = "wait"
  /\ Cardinality(Sent("getJobStatus")) = max_attempts
  /\ pc = "sleep"
  /\ service_auth["wait"].exp - now = TokenLifetime - LongestPoll - RequestTimeout
  /\ TokenLifetime - LongestPoll = 610

\* C21: within one publish attempt the directory lookup of the user's identity
\* document is sent at most once, however many scoped tokens are asked for.
C21_ResolvedOncePerAttempt == Cardinality(Sent("directory")) <= 1

\* a KeyboardInterrupt was raised while the poller was in time.sleep(10)
CancelledInSleep == main.interrupted = "sleep"

\* C22: a cancellation signal (SIGINT) raised during the poller's sleep ends the
\* attempt at once: the run is over with the status query before the sleep as
\* its last call, the interrupted sleep is not completed and none follows, no
\* createRecord is sent, post_to_bluesky never returns and main returns False.
C22_CancelAbortsWait ==
  CancelledInSleep =>
    /\ pc = "exit"
    /\ main.returned /\ ~main.success
    /\ result = NotReturned
    /\ log[Len(log)].op = "getJobStatus"
    /\ Sent("createRecord") = {}
    /\ sleeps = Cardinality(Sent("getJobStatus")) - 1
    /\ attempt = sleeps

\* cancelled in the sleep after the second query, 28 attempts left
C22_Witness ==
  /\ CancelledInSleep
  /\ Cardinality(Sent("getJobStatus")) = 2
  /\ pc = "exit"

\* the access token, user id, scoped tokens and job id used in the calls of one
\* attempt's log are those the same attempt received, and the bytes it uploads
\* are its own asset
OwnState(l, v) ==
  \A i \in 1..Len(l) :
    CASE l[i].op = "createSession" -> i = 1
      [] l[i].op = "directory" -> l[i].req.did = l[1].res.did
      [] l[i].op = "getServiceAuth" -> l[i].req.bearer = l[1].res.accessJwt
      [] l[i].op = "uploadVideo" ->
           /\ l[i].req.bearer = ServiceAuth(l[i - 1].res)
           /\ l[i].req.did = l[1].res.did
           /\ l[i].req.data = v.content
      [] l[i].op = "getJobStatus" ->
           \E u \in 1..(i - 1) :
             /\ l[u].op = "uploadVideo"
             /\ l[i].req.jobId = l[u].res.jobId
             /\ l[i].req.jobId = JobOf(v.content)
             /\ \E a \in (u + 1)..(i - 1) :
                  /\ l[a].op = "getServiceAuth"
                  /\ l[i].req.bearer = ServiceAuth(l[a].res)
      [] OTHER ->
           /\ l[i].req.bearer = l[1].res.accessJwt
           /\ l[i].req.repo = l[1].res.did

C24_EmbeddedBlobIsStatusBlob ==
  \A i \in Sent("createRecord") :
    /\ Sent("uploadVideo") # {} /\ Sent("getJobStatus") # {}
    /\ log[LastQuery].req.jobId = UploadResponse.jobId
    /\ Truthy(UploadResponse.jobId)
    /\ StatusRead(lastStatus)
    /\ log[i].req.record.embed.video = lastStatus.blob
    /\ Truthy(log[i].req.record.embed.video)

\* a record with the blob bafy456 found on the conflict path
C24_Witness ==
  /\ Sent("createRecord") # {}
  /\ stage = "blob"
  /\ record.embed.video = "bafy456"
  /\ lastStatus.blob = "bafy456"

\* the last status query of the poll was answered with a non-success status
ErrorStatusReported ==
  /\ stage = "wait" /\ Sent("getJobStatus") # {}
  /\ ~lastStatus.raised /\ lastStatus.status # 200

\* C25: in the poll, a getJobStatus response with a non-success HTTP status
\* does not end the poll: the poller sleeps once for it and queries again, the
\* query having used up one of the 30 attempts; after such a response the poll
\* has ended only if it was the 30th query, by time-out, with failure.
C25_ErrorStatusIsPolledAgain ==
  ErrorStatusReported =>
    LET queries == Cardinality(Sent("getJobStatus"))
    IN \/ pc = "sleep" /\ attempt = queries - 1 /\ sleeps = queries - 1
       \/ /\ pc = "wait_for_video_processing"
          /\ attempt = queries /\ sleeps = queries /\ queries < max_attempts
       \/ /\ pc = "done" /\ ~result.ok
          /\ queries = max_attempts /\ attempt = max_attempts
          /\ sleeps = max_attempts
          /\ log[Len(log)].op = "getJobStatus"

\* the 30th query was answered 503 and the poll timed out
C25_Witness ==
  /\ ErrorStatusReported
  /\ lastStatus.status = 503
  /\ Cardinality(Sent("getJobStatus")) = max_attempts
  /\ pc = "done"

\* the last status query of the poll raised (connection error or timeout)
TransportErrorInPoll ==
  /\ stage = "wait" /\ Sent("getJobStatus") # {}
  /\ lastStatus.raised

\* C26: in the poll, a getJobStatus query that raises a transport-level
\* exception ends the poll at once with failure: no sleep and no query follow
\* it, whatever number of attempts is left, and no createRecord is sent.
C26_TransportErrorEndsPoll ==
  TransportErrorInPoll =>
    /\ pc = "done" /\ ~result.ok
    /\ log[Len(log)].op = "getJobStatus"
    /\ sleeps = Cardinality(Sent("getJobStatus")) - 1
    /\ attempt = sleeps
    /\ Sent("createRecord") = {}

\* the third query raised: the attempt failed with 27 attempts unused
C26_Witness ==
  /\ TransportErrorInPoll
  /\ Cardinality(Sent("getJobStatus")) = 3
  /\ pc = "done" /\ ~result.ok

\* the last status response reports COMPLETED without a blob reference
CompletedWithoutBlob ==
  /\ Sent("getJobStatus") # {}
  /\ StatusRead(lastStatus)
  /\ PollState(lastStatus) = JOB_STATE_COMPLETED
  /\ ~Truthy(PollBlob(lastStatus))

\* C27: a status response that reports COMPLETED without a blob reference, in
\* the poll or as the answer to the one query of the 409-COMPLETED path, makes
\* the attempt fail at once: it is the last call, no sleep follows it and no
\* createRecord is sent.
C27_CompletedWithoutBlobFails ==
  CompletedWithoutBlob =>
    /\ pc = "done" /\ ~result.ok
    /\ log[Len(log)].op = "getJobStatus"
    /\ sleeps = Cardinality(Sent("getJobStatus")) - 1
    /\ stage = "blob" => Cardinality(Sent("getJobStatus")) = 1
    /\ Sent("createRecord") = {}

\* COMPLETED with an empty blob at the second query of the poll
C27_Witness ==
  /\ CompletedWithoutBlob
  /\ stage = "wait"
  /\ lastStatus.blob = Empty
  /\ Cardinality(Sent("getJobStatus")) = 2
  /\ pc = "done"

\* C28: with the placeholder handle or an empty password configured,
\* post_to_bluesky creates no client and sends no call, and when it has returned
\* it has returned False.
C28_UnconfiguredSendsNothing ==
  cfg.handle = PlaceholderHandle \/ cfg.password = Empty =>
    /\ ~client.created
    /\ log = <<>>
    /\ pc \in {"idle", "done"}
    /\ pc = "done" => ~result.ok

\* post_to_bluesky returned with a real handle and an empty password
C28_Witness ==
  /\ cfg.handle # PlaceholderHandle /\ cfg.password = Empty
  /\ pc = "done" /\ ~result.ok /\ log = <<>>

\* main has returned without having been interrupted
Exited == pc = "exit" /\ main.interrupted = None

\* C29: once the final video exists, main runs the cleanup step after
\* post_to_bluesky whatever it returned (True, False after a failed stage, False
\* for unconfigured credentials), and returns True whenever the cleanup step
\* completes: main's value does not depend on the publish outcome.
C29_MainIgnoresPublishOutcome ==
  Exited =>
    /\ main.returned
    /\ main.cleanup \in {"done", "raised"}
    /\ main.success <=> main.cleanup = "done"

\* main returned True after a publish attempt that failed at createRecord
C29_Witness ==
  /\ Exited /\ main.success
  /\ ~result.ok
  /\ Sent("createRecord") # {}

====
